---- MODULE Spec2Model ----
(***************************************************************************)
(* Model of ticketpy/query.py: the query classes that turn caller keyword  *)
(* arguments into the parameters of ApiClient._search, and by_id lookups.  *)
(*                                                                         *)
(* A Python dict is a function from a finite set of key strings to values. *)
(* A Python value is a record [t, i, s]: t is the type tag, i the number   *)
(* (int value, float value in tenths, bool as 0/1) and s the text as a     *)
(* sequence of one-character strings.                                      *)
(***************************************************************************)
EXTENDS Integers, Sequences, FiniteSets, TLC

VARIABLES pc, op, query, args, findCalls, getCalls, searchCalls,
          fetchCalls, fromJsonCalls, ret, raised

vars == <<pc, op, query, args, findCalls, getCalls, searchCalls,
          fetchCalls, fromJsonCalls, ret, raised>>

---------------------------------------------------------------------------
(* Bounds *)

\* largest int value a caller passes as a parameter value
MaxInt == 1
\* largest number of keyword arguments a caller passes to _search_params,
\* _get or find
MaxKeys == 2
\* largest number of optional / extra keyword arguments passed to a wrapper
MaxExtra == 1

---------------------------------------------------------------------------
(* Python values *)

None == [t |-> "none", i |-> 0, s |-> <<>>]
IntVal(n) == [t |-> "int", i |-> n, s |-> <<>>]
FloatVal(tenths) == [t |-> "float", i |-> tenths, s |-> <<>>]
BoolVal(b) == [t |-> "bool", i |-> IF b THEN 1 ELSE 0, s |-> <<>>]
StrVal(chars) == [t |-> "str", i |-> 0, s |-> chars]

\* Python truthiness: None, 0, 0.0, False and "" are falsy
Falsy(v) == \/ v.t = "none"
            \/ v.t \in {"int", "float", "bool"} /\ v.i = 0
            \/ v.t = "str" /\ v.s = <<>>

Digit(d) == CASE d = 0 -> "0" [] d = 1 -> "1" [] d = 2 -> "2" [] d = 3 -> "3"
              [] d = 4 -> "4" [] d = 5 -> "5" [] d = 6 -> "6" [] d = 7 -> "7"
              [] d = 8 -> "8" [] d = 9 -> "9"

RECURSIVE NatText(_)
NatText(n) == IF n < 10 THEN <<Digit(n)>>
              ELSE NatText(n \div 10) \o <<Digit(n % 10)>>

IntText(n) == IF n < 0 THEN <<"-">> \o NatText(0 - n) ELSE NatText(n)

\* a float with one decimal place prints as <integer part>.<decimal>
FloatText(tenths) ==
    LET a == IF tenths < 0 THEN 0 - tenths ELSE tenths
    IN  (IF tenths < 0 THEN <<"-">> ELSE <<>>)
            \o NatText(a \div 10) \o <<".">> \o <<Digit(a % 10)>>

\* str(v)
PyStr(v) == CASE v.t = "str" -> v.s
              [] v.t = "int" -> IntText(v.i)
              [] v.t = "float" -> FloatText(v.i)
              [] v.t = "bool" -> IF v.i = 1 THEN <<"T", "r", "u", "e">>
                                 ELSE <<"F", "a", "l", "s", "e">>
              [] v.t = "none" -> <<"N", "o", "n", "e">>

---------------------------------------------------------------------------
(* Python dicts *)

EmptyDict == [k \in {} |-> None]

\* d[k] = v
Put(d, k, v) == [x \in DOMAIN d \cup {k} |-> IF x = k THEN v ELSE d[x]]

\* del d[k]
Del(d, k) == [x \in DOMAIN d \ {k} |-> d[x]]

\* d.update(e)
Update(d, e) == [x \in DOMAIN d \cup DOMAIN e |->
                    IF x \in DOMAIN e THEN e[x] ELSE d[x]]

\* a keyword parameter with a default: the caller's value when given
Param(given, name, default) ==
    IF name \in DOMAIN given THEN given[name] ELSE default

\* **kwargs: the caller's keyword arguments that match no named parameter
Kwargs(given, named) == [x \in DOMAIN given \ named |-> given[x]]

---------------------------------------------------------------------------
(* The rename table, ticketpy.model.attr_map, as the sequence of its items *)
(* in iteration order.  It is defined outside query.py and written here    *)
(* from the specification: one item per named search parameter, the        *)
(* semantic snake_case name mapped to the API's camelCase wire name (as in *)
(* the comment in _search_params: 'venue_id' becomes 'venueId'), and the   *)
(* single-word names mapped to themselves (the items the test k != v       *)
(* skips).  No wire name is the semantic key of another item.              *)

attr_map == <<
    <<"start_date_time", "startDateTime">>,
    <<"end_date_time", "endDateTime">>,
    <<"onsale_start_date_time", "onsaleStartDateTime">>,
    <<"onsale_end_date_time", "onsaleEndDateTime">>,
    <<"country_code", "countryCode">>,
    <<"state_code", "stateCode">>,
    <<"venue_id", "venueId">>,
    <<"attraction_id", "attractionId">>,
    <<"segment_id", "segmentId">>,
    <<"segment_name", "segmentName">>,
    <<"classification_name", "classificationName">>,
    <<"classification_id", "classificationId">>,
    <<"market_id", "marketId">>,
    <<"promoter_id", "promoterId">>,
    <<"dma_id", "dmaId">>,
    <<"include_tba", "includeTBA">>,
    <<"include_tbd", "includeTBD">>,
    <<"client_visibility", "clientVisibility">>,
    <<"include_test", "includeTest">>,
    <<"keyword", "keyword">>,
    <<"id", "id">>,
    <<"sort", "sort">>,
    <<"page", "page">>,
    <<"size", "size">>,
    <<"locale", "locale">>,
    <<"latlong", "latlong">>,
    <<"radius", "radius">> >>

---------------------------------------------------------------------------
(* BaseQuery._search_params *)

\* faulty RenameStep: the old key is not deleted
RenameStepKeepsOld(kwargs, k, v) ==
    IF k \in DOMAIN kwargs /\ k # v
    THEN Put(kwargs, v, kwargs[k])
    ELSE kwargs

\* faulty RenameStep: the test k != v is missing
RenameStepUnguarded(kwargs, k, v) ==
    IF k \in DOMAIN kwargs
    THEN Del(Put(kwargs, v, kwargs[k]), k)
    ELSE kwargs

\* faulty RenameStep: a wire key already present is not overwritten
RenameStepKeepsExisting(kwargs, k, v) ==
    IF k \in DOMAIN kwargs /\ k # v
    THEN IF v \in DOMAIN kwargs THEN Del(kwargs, k)
         ELSE Del(Put(kwargs, v, kwargs[k]), k)
    ELSE kwargs

\* one iteration of the loop body, for the item (k, v) of attr_map
RenameStep(kwargs, k, v) ==
    IF k \in DOMAIN kwargs /\ k # v
    THEN Del(Put(kwargs, v, kwargs[k]), k)
    ELSE kwargs

\* the loop over attr_map.items(), from item i on
RECURSIVE RenameFrom(_, _)
RenameFrom(kwargs, i) ==
    IF i > Len(attr_map) THEN kwargs
    ELSE RenameFrom(RenameStep(kwargs, attr_map[i][1], attr_map[i][2]), i + 1)

\* faulty DropNone: nothing is filtered
KeepNone(kwargs) == kwargs

\* faulty DropNone: the filter is "if v" instead of "if v is not None"
DropFalsy(kwargs) ==
    [k \in {x \in DOMAIN kwargs : ~Falsy(kwargs[x])} |-> kwargs[k]]

\* the returned dict comprehension
DropNone(kwargs) ==
    [k \in {x \in DOMAIN kwargs : kwargs[x] # None} |-> kwargs[k]]

\* faulty SearchParams: only the wire keys of attr_map are kept
SearchParamsKnownOnly(kwargs) ==
    LET d == DropNone(RenameFrom(kwargs, 1))
    IN  [k \in {x \in DOMAIN d : \E i \in DOMAIN attr_map : attr_map[i][2] = x}
            |-> d[k]]

SearchParams(kwargs) == DropNone(RenameFrom(kwargs, 1))

---------------------------------------------------------------------------
(* The query classes: resource and model class attributes *)

Queries == {"AttractionQuery", "ClassificationQuery", "SegmentQuery",
            "GenreQuery", "SubGenreQuery", "EventQuery", "VenueQuery"}

Resource(q) == CASE q = "AttractionQuery" -> "attractions"
                 [] q = "ClassificationQuery" -> "classifications"
                 [] q = "SegmentQuery" -> "classifications/segments"
                 [] q = "GenreQuery" -> "classifications/genres"
                 [] q = "SubGenreQuery" -> "classifications/subgenres"
                 [] q = "EventQuery" -> "events"
                 [] q = "VenueQuery" -> "venues"

Model(q) == CASE q = "AttractionQuery" -> "Attraction"
              [] q = "ClassificationQuery" -> "Classification"
              [] q = "SegmentQuery" -> "Segment"
              [] q = "GenreQuery" -> "Genre"
              [] q = "SubGenreQuery" -> "Subgenre"
              [] q = "EventQuery" -> "Event"
              [] q = "VenueQuery" -> "Venue"

---------------------------------------------------------------------------
(* BaseQuery._get and BaseQuery.__get *)

\* the named parameters of _get
GetParams == {"keyword", "entity_id", "sort", "include_test", "page", "size",
              "locale"}

\* a call _get(**given): the named parameters default to None, the rest of
\* the keyword arguments land in kwargs
GetBind(given) ==
    [keyword |-> Param(given, "keyword", None),
     entity_id |-> Param(given, "entity_id", None),
     sort |-> Param(given, "sort", None),
     include_test |-> Param(given, "include_test", None),
     page |-> Param(given, "page", None),
     size |-> Param(given, "size", None),
     locale |-> Param(given, "locale", None),
     kwargs |-> Kwargs(given, GetParams)]

\* faulty SearchArgs: entity_id is stored under 'entity_id', not 'id'
SearchArgsEntityId(a) ==
    Update(a.kwargs,
           [x \in {"keyword", "entity_id", "sort", "include_test", "page",
                   "size", "locale"} |->
               CASE x = "keyword" -> a.keyword
                 [] x = "entity_id" -> a.entity_id
                 [] x = "sort" -> a.sort
                 [] x = "include_test" -> a.include_test
                 [] x = "page" -> a.page
                 [] x = "size" -> a.size
                 [] x = "locale" -> a.locale])

\* search_args = kwargs; search_args.update({...})
SearchArgs(a) ==
    Update(a.kwargs,
           [x \in {"keyword", "id", "sort", "include_test", "page", "size",
                   "locale"} |->
               CASE x = "keyword" -> a.keyword
                 [] x = "id" -> a.entity_id
                 [] x = "sort" -> a.sort
                 [] x = "include_test" -> a.include_test
                 [] x = "page" -> a.page
                 [] x = "size" -> a.size
                 [] x = "locale" -> a.locale])

\* the call api_client._search(self.resource, **params) that _get makes,
\* for the bound arguments a of _get on query class q
Get(q, a) == [resource |-> Resource(q), params |-> SearchParams(SearchArgs(a))]

---------------------------------------------------------------------------
(* The find methods: each returns the bound arguments of its _get call *)

AttractionFindParams == {"sort", "keyword", "attraction_id", "source",
                         "include_test", "page", "size", "locale"}

\* faulty AttractionFind: the positional arguments of _get follow the
\* order of find's own signature (sort, keyword, ...)
AttractionFindSwapped(given) ==
    [keyword |-> Param(given, "sort", None),
     entity_id |-> Param(given, "keyword", None),
     sort |-> Param(given, "attraction_id", None),
     include_test |-> Param(given, "include_test", None),
     page |-> Param(given, "page", None),
     size |-> Param(given, "size", None),
     locale |-> Param(given, "locale", None),
     kwargs |-> Update([x \in {"source"} |-> Param(given, x, None)],
                       Kwargs(given, AttractionFindParams))]

AttractionFind(given) ==
    [keyword |-> Param(given, "keyword", None),
     entity_id |-> Param(given, "attraction_id", None),
     sort |-> Param(given, "sort", None),
     include_test |-> Param(given, "include_test", None),
     page |-> Param(given, "page", None),
     size |-> Param(given, "size", None),
     locale |-> Param(given, "locale", None),
     kwargs |-> Update([x \in {"source"} |-> Param(given, x, None)],
                       Kwargs(given, AttractionFindParams))]

ClassificationFindParams == {"sort", "keyword", "classification_id", "source",
                             "include_test", "page", "size", "locale"}

ClassificationFind(given) ==
    [keyword |-> Param(given, "keyword", None),
     entity_id |-> Param(given, "classification_id", None),
     sort |-> Param(given, "sort", None),
     include_test |-> Param(given, "include_test", None),
     page |-> Param(given, "page", None),
     size |-> Param(given, "size", None),
     locale |-> Param(given, "locale", None),
     kwargs |-> Update([x \in {"source"} |-> Param(given, x, None)],
                       Kwargs(given, ClassificationFindParams))]

\* the parameters EventQuery.find passes to _get by keyword
EventFindKeywords ==
    {"latlong", "radius", "unit", "start_date_time", "end_date_time",
     "onsale_start_date_time", "onsale_end_date_time", "country_code",
     "state_code", "venue_id", "attraction_id", "segment_id", "segment_name",
     "classification_name", "classification_id", "market_id", "promoter_id",
     "dma_id", "include_tba", "include_tbd", "source", "client_visibility"}

EventFindParams == EventFindKeywords \cup
    {"sort", "keyword", "event_id", "include_test", "page", "size", "locale"}

\* the default of EventQuery.find's sort parameter, 'date,asc'
EventSortDefault == StrVal(<<"d", "a", "t", "e", ",", "a", "s", "c">>)

EventFind(given) ==
    [keyword |-> Param(given, "keyword", None),
     entity_id |-> Param(given, "event_id", None),
     sort |-> Param(given, "sort", EventSortDefault),
     include_test |-> Param(given, "include_test", None),
     page |-> Param(given, "page", None),
     size |-> Param(given, "size", None),
     locale |-> Param(given, "locale", None),
     kwargs |-> Update([x \in EventFindKeywords |-> Param(given, x, None)],
                       Kwargs(given, EventFindParams))]

VenueFindParams == {"keyword", "venue_id", "sort", "state_code",
                    "country_code", "source", "include_test", "page", "size",
                    "locale"}

VenueFind(given) ==
    [keyword |-> Param(given, "keyword", None),
     entity_id |-> Param(given, "venue_id", None),
     sort |-> Param(given, "sort", None),
     include_test |-> Param(given, "include_test", None),
     page |-> Param(given, "page", None),
     size |-> Param(given, "size", None),
     locale |-> Param(given, "locale", None),
     kwargs |-> Update([x \in {"state_code", "country_code", "source"} |->
                           Param(given, x, None)],
                       Kwargs(given, VenueFindParams))]

\* the query classes that define find, and what each find hands to _get
FindQueries == {"AttractionQuery", "ClassificationQuery", "EventQuery",
                "VenueQuery"}

Find(q, given) == CASE q = "AttractionQuery" -> AttractionFind(given)
                    [] q = "ClassificationQuery" -> ClassificationFind(given)
                    [] q = "EventQuery" -> EventFind(given)
                    [] q = "VenueQuery" -> VenueFind(given)

---------------------------------------------------------------------------
(* The convenience wrappers: each returns the keyword arguments of its     *)
(* call of find                                                            *)

ByLocationParams == {"latitude", "longitude", "radius", "unit", "sort"}

\* the defaults radius='10', unit='miles', sort='relevance,desc'
RadiusDefault == StrVal(<<"1", "0">>)
UnitDefault == StrVal(<<"m", "i", "l", "e", "s">>)
LocationSortDefault ==
    StrVal(<<"r", "e", "l", "e", "v", "a", "n", "c", "e", ",",
             "d", "e", "s", "c">>)

\* faulty LatLong: longitude first
LatLongSwapped(latitude, longitude) ==
    StrVal(PyStr(longitude) \o <<",">> \o PyStr(latitude))

\* "{lat},{long}".format(lat=str(latitude), long=str(longitude))
LatLong(latitude, longitude) ==
    StrVal(PyStr(latitude) \o <<",">> \o PyStr(longitude))

ByLocation(given) ==
    Update(Kwargs(given, ByLocationParams),
           [x \in {"latlong", "radius", "unit", "sort"} |->
               CASE x = "latlong" -> LatLong(given["latitude"],
                                             given["longitude"])
                 [] x = "radius" ->
                        StrVal(PyStr(Param(given, "radius", RadiusDefault)))
                 [] x = "unit" -> Param(given, "unit", UnitDefault)
                 [] x = "sort" -> Param(given, "sort", LocationSortDefault)])

ByNameParams == {"venue_name", "state_code"}

ByName(given) ==
    Update(Kwargs(given, ByNameParams),
           [x \in {"keyword", "state_code"} |->
               CASE x = "keyword" -> given["venue_name"]
                 [] x = "state_code" -> Param(given, "state_code", None)])

---------------------------------------------------------------------------
(* BaseQuery.by_id.  resp is what api_client._get_id does: it returns a    *)
(* JSON object ([ok |-> TRUE, json |-> j]) or raises ([ok |-> FALSE]).     *)

NoRet == [t |-> "none"]

\* faulty ById: the identifier is sent as text
ByIdTextId(q, entity_id, resp) ==
    [fetch |-> <<[resource |-> Resource(q), id |-> StrVal(PyStr(entity_id))]>>,
     fromJson |-> IF resp.ok THEN <<[model |-> Model(q), json |-> resp.json]>>
                  ELSE <<>>,
     ret |-> IF resp.ok
             THEN [t |-> "model", model |-> Model(q), json |-> resp.json]
             ELSE NoRet,
     raised |-> ~resp.ok]

ById(q, entity_id, resp) ==
    [fetch |-> <<[resource |-> Resource(q), id |-> entity_id]>>,
     fromJson |-> IF resp.ok THEN <<[model |-> Model(q), json |-> resp.json]>>
                  ELSE <<>>,
     ret |-> IF resp.ok
             THEN [t |-> "model", model |-> Model(q), json |-> resp.json]
             ELSE NoRet,
     raised |-> ~resp.ok]

---------------------------------------------------------------------------
(* Callers.  A caller passes keyword arguments drawn from a small set of   *)
(* names and values.  Extra keyword arguments range over names Python can  *)
(* bind: a name the callee itself passes on explicitly (entity_id to a     *)
(* find, latlong to by_location, keyword to by_name) is rejected by the    *)
(* interpreter before the callee runs.                                     *)

Ints == {IntVal(n) : n \in 0..MaxInt}

Vals == {None, StrVal(<<>>), BoolVal(FALSE)} \cup Ints

\* the dicts with at most n keys out of keys
Dicts(keys, n) ==
    UNION {[S -> Vals] : S \in {T \in SUBSET keys : Cardinality(T) <= n}}

SearchParamsKeys == {"venue_id", "venueId", "state_code", "keyword", "page",
                     "foo"}

GetKeys == {"entity_id", "page", "venue_id", "venueId", "id"}

\* the name of the id parameter of q's find
IdParam(q) == CASE q = "AttractionQuery" -> "attraction_id"
                [] q = "ClassificationQuery" -> "classification_id"
                [] q = "EventQuery" -> "event_id"
                [] q = "VenueQuery" -> "venue_id"

FindKeys(q) == {IdParam(q), "venue_id", "venueId", "sort", "page", "id", "foo"}

LocationVals == {IntVal(5), IntVal(-12), FloatVal(337), FloatVal(-844),
                 StrVal(<<"a">>)}

ByLocationKeys == {"unit", "sort", "foo"}

ByNameKeys == {"state_code", "venueId", "page", "foo"}

Ids == {StrVal(<<"a">>), StrVal(<<>>), IntVal(0), None}

Jsons == {"json1", "json2"}

Responses == {[ok |-> TRUE, json |-> j] : j \in Jsons}
                 \cup {[ok |-> FALSE, json |-> "none"]}

PagedRet == [t |-> "paged"]

---------------------------------------------------------------------------
(* The state machine: one action per public operation, each from call to   *)
(* return; Return takes the object back to rest.                           *)

Init ==
    /\ pc = "idle"
    /\ op = "none"
    /\ query = "none"
    /\ args = EmptyDict
    /\ findCalls = <<>>
    /\ getCalls = <<>>
    /\ searchCalls = <<>>
    /\ fetchCalls = <<>>
    /\ fromJsonCalls = <<>>
    /\ ret = NoRet
    /\ raised = FALSE

\* BaseQuery._search_params(**P)
CallSearchParams ==
    /\ pc = "idle"
    /\ \E P \in Dicts(SearchParamsKeys, MaxKeys) :
          /\ args' = P
          /\ ret' = [t |-> "dict", d |-> SearchParams(P)]
    /\ pc' = "returned"
    /\ op' = "_search_params"
    /\ query' = "BaseQuery"
    /\ raised' = FALSE
    /\ UNCHANGED <<findCalls, getCalls, searchCalls, fetchCalls,
                   fromJsonCalls>>

\* BaseQuery._search_params(**R), R the dict the previous call returned
CallSearchParamsAgain ==
    /\ pc = "returned"
    /\ op = "_search_params"
    /\ args' = ret.d
    /\ ret' = [t |-> "dict", d |-> SearchParams(ret.d)]
    /\ UNCHANGED <<pc, op, query, raised, findCalls, getCalls, searchCalls,
                   fetchCalls, fromJsonCalls>>

\* q._get(**given)
CallGet ==
    /\ pc = "idle"
    /\ \E q \in Queries, given \in Dicts(GetKeys, MaxKeys) :
          /\ query' = q
          /\ args' = given
          /\ getCalls' = <<[query |-> q, a |-> GetBind(given)]>>
          /\ searchCalls' = <<Get(q, GetBind(given))>>
    /\ pc' = "returned"
    /\ op' = "_get"
    /\ ret' = PagedRet
    /\ raised' = FALSE
    /\ UNCHANGED <<findCalls, fetchCalls, fromJsonCalls>>

\* q.find(**given)
CallFind ==
    /\ pc = "idle"
    /\ \E q \in FindQueries :
       \E given \in Dicts(FindKeys(q), MaxKeys) :
          /\ query' = q
          /\ args' = given
          /\ findCalls' = <<[query |-> q, given |-> given]>>
          /\ getCalls' = <<[query |-> q, a |-> Find(q, given)]>>
          /\ searchCalls' = <<Get(q, Find(q, given))>>
    /\ pc' = "returned"
    /\ op' = "find"
    /\ ret' = PagedRet
    /\ raised' = FALSE
    /\ UNCHANGED <<fetchCalls, fromJsonCalls>>

\* EventQuery.by_location(latitude, longitude, **opts)
CallByLocation ==
    /\ pc = "idle"
    /\ \E lat \in LocationVals, long \in LocationVals,
          rad \in [{"radius"} -> LocationVals] \cup {EmptyDict},
          opts \in Dicts(ByLocationKeys, MaxExtra) :
          LET given == Update(Update(opts, rad),
                              [x \in {"latitude", "longitude"} |->
                                  IF x = "latitude" THEN lat ELSE long])
              f == ByLocation(given)
          IN  /\ args' = given
              /\ findCalls' = <<[query |-> "EventQuery", given |-> f]>>
              /\ getCalls' = <<[query |-> "EventQuery", a |-> EventFind(f)]>>
              /\ searchCalls' = <<Get("EventQuery", EventFind(f))>>
    /\ pc' = "returned"
    /\ op' = "by_location"
    /\ query' = "EventQuery"
    /\ ret' = PagedRet
    /\ raised' = FALSE
    /\ UNCHANGED <<fetchCalls, fromJsonCalls>>

\* VenueQuery.by_name(venue_name, **opts)
CallByName ==
    /\ pc = "idle"
    /\ \E name \in Vals, opts \in Dicts(ByNameKeys, MaxExtra) :
          LET given == Put(opts, "venue_name", name)
              f == ByName(given)
          IN  /\ args' = given
              /\ findCalls' = <<[query |-> "VenueQuery", given |-> f]>>
              /\ getCalls' = <<[query |-> "VenueQuery", a |-> VenueFind(f)]>>
              /\ searchCalls' = <<Get("VenueQuery", VenueFind(f))>>
    /\ pc' = "returned"
    /\ op' = "by_name"
    /\ query' = "VenueQuery"
    /\ ret' = PagedRet
    /\ raised' = FALSE
    /\ UNCHANGED <<fetchCalls, fromJsonCalls>>

\* q.by_id(entity_id), with api_client._get_id answering resp
CallById ==
    /\ pc = "idle"
    /\ \E q \in Queries, entity_id \in Ids, resp \in Responses :
          LET r == ById(q, entity_id, resp)
          IN  /\ query' = q
              /\ args' = [x \in {"entity_id", "resp"} |->
                             IF x = "entity_id" THEN entity_id ELSE resp]
              /\ fetchCalls' = r.fetch
              /\ fromJsonCalls' = r.fromJson
              /\ ret' = r.ret
              /\ raised' = r.raised
    /\ pc' = "returned"
    /\ op' = "by_id"
    /\ UNCHANGED <<findCalls, getCalls, searchCalls>>

\* the call has returned (or raised); nothing of it is kept
Return ==
    /\ pc = "returned"
    /\ pc' = "idle"
    /\ op' = "none"
    /\ query' = "none"
    /\ args' = EmptyDict
    /\ findCalls' = <<>>
    /\ getCalls' = <<>>
    /\ searchCalls' = <<>>
    /\ fetchCalls' = <<>>
    /\ fromJsonCalls' = <<>>
    /\ ret' = NoRet
    /\ raised' = FALSE

Next == \/ CallSearchParams
        \/ CallSearchParamsAgain
        \/ CallGet
        \/ CallFind
        \/ CallByLocation
        \/ CallByName
        \/ CallById
        \/ Return

Spec == Init /\ [][Next]_vars

---------------------------------------------------------------------------
(* Vocabulary of the properties *)

\* the (semantic key, wire key) items of the rename table
Items == {attr_map[i] : i \in DOMAIN attr_map}

\* the items that rename: semantic key and wire key differ
Renames == {e \in Items : e[1] # e[2]}

SemanticKeys == {e[1] : e \in Items}

\* attr_map as a function from semantic key to wire key
WireKey == [k \in SemanticKeys |-> (CHOOSE e \in Items : e[1] = k)[2]]

\* the wire name a key ends at
WireName(k) == IF k \in SemanticKeys THEN WireKey[k] ELSE k

\* d.get(k): None when k is no key of d
Lookup(d, k) == IF k \in DOMAIN d THEN d[k] ELSE None

\* a search went through the shared assembly
Searched == op \in {"_get", "find", "by_location", "by_name"}

\* the state holds a run of _search_params: directly, or inside _get
Normalized == op = "_search_params" \/ Searched

\* the dict _search_params received in this state ...
InDict == IF op = "_search_params" THEN args
          ELSE LET a == getCalls[1].a
               IN  [k \in DOMAIN a.kwargs \cup {"keyword", "id", "sort",
                        "include_test", "page", "size", "locale"} |->
                      CASE k = "keyword" -> a.keyword
                        [] k = "id" -> a.entity_id
                        [] k = "sort" -> a.sort
                        [] k = "include_test" -> a.include_test
                        [] k = "page" -> a.page
                        [] k = "size" -> a.size
                        [] k = "locale" -> a.locale
                        [] OTHER -> a.kwargs[k]]

\* ... and the dict it returned
OutDict == IF op = "_search_params" THEN ret.d ELSE searchCalls[1].params

\* the keys of d that some other key of d shares its wire name with
Collides(d, k) == \E j \in DOMAIN d : j # k /\ WireName(j) = WireName(k)

---------------------------------------------------------------------------
(* C1 *)

\* C1: the dict _search_params returns holds no None value, so no call of
\* _get, find, by_location or by_name hands a None value to
\* api_client._search.
C1_NoNoneForwarded ==
    /\ op = "_search_params" => \A k \in DOMAIN ret.d : ret.d[k] # None
    /\ \A i \in DOMAIN searchCalls :
          \A k \in DOMAIN searchCalls[i].params :
             searchCalls[i].params[k] # None

\* a find was given a None value and made its search
C1_Witness ==
    /\ op = "find"
    /\ \E k \in DOMAIN args : args[k] = None
    /\ Len(searchCalls) = 1
    /\ \E k \in DOMAIN InDict : InDict[k] = None

---------------------------------------------------------------------------
(* C2 *)

\* C2 as claimed: for every renaming item K -> W and every P holding K,
\* with no other key of P renaming to W, the result lacks K and holds W
\* with the value P had under K.
C2_RenameMovesValue ==
    Normalized =>
      LET P == InDict
          R == OutDict
      IN
        \A e \in Renames :
           (/\ e[1] \in DOMAIN P
            /\ ~ \E f \in Renames : f[1] # e[1] /\ f[2] = e[2]
                                     /\ f[1] \in DOMAIN P)
           => /\ e[1] \notin DOMAIN R
              /\ e[2] \in DOMAIN R
              /\ R[e[2]] = P[e[1]]

\* C2 amended: the same when the value P has under K is not None; when it
\* is None the result holds neither K nor W.
C2_RenameMovesNonNoneValue ==
    Normalized =>
      LET P == InDict
          R == OutDict
      IN
        \A e \in Renames :
           (/\ e[1] \in DOMAIN P
            /\ ~ \E f \in Renames : f[1] # e[1] /\ f[2] = e[2]
                                     /\ f[1] \in DOMAIN P)
           => /\ e[1] \notin DOMAIN R
              /\ P[e[1]] # None =>
                    e[2] \in DOMAIN R /\ R[e[2]] = P[e[1]]
              /\ P[e[1]] = None => e[2] \notin DOMAIN R

\* venue_id was passed with a value and came out as venueId
C2_Witness ==
    /\ op = "_search_params"
    /\ "venue_id" \in DOMAIN args
    /\ args["venue_id"] # None
    /\ "venueId" \in DOMAIN ret.d
    /\ "venue_id" \notin DOMAIN ret.d

---------------------------------------------------------------------------
(* C3 *)

\* the id parameters of the find methods
ResourceIdParams == {"event_id", "venue_id", "attraction_id",
                     "classification_id"}

\* the one search of this state is for the bound resource and carries x
\* under id and nothing under entity_id
SearchedForId(x) ==
    /\ Len(searchCalls) = 1
    /\ searchCalls[1].resource = Resource(query)
    /\ "id" \in DOMAIN searchCalls[1].params
    /\ searchCalls[1].params["id"] = x
    /\ "entity_id" \notin DOMAIN searchCalls[1].params

---------------------------------------------------------------------------
(* C4 *)

\* the resource path of each query class, as the API names them
PathOf(q) == CASE q = "AttractionQuery" -> "attractions"
               [] q = "ClassificationQuery" -> "classifications"
               [] q = "SegmentQuery" -> "classifications/segments"
               [] q = "GenreQuery" -> "classifications/genres"
               [] q = "SubGenreQuery" -> "classifications/subgenres"
               [] q = "EventQuery" -> "events"
               [] q = "VenueQuery" -> "venues"

\* C4: by_id(i) on any query class makes exactly one fetch-by-id call, with
\* the class's own resource path and i unchanged, and no search call; it
\* returns the class's own model built by from_json from the fetched JSON
\* as it came; when the fetch fails the failure propagates and no model is
\* built.
C4_ByIdFetchesAndBuilds ==
    op = "by_id" =>
        /\ fetchCalls = <<[resource |-> PathOf(query),
                           id |-> args["entity_id"]]>>
        /\ searchCalls = <<>>
        /\ args["resp"].ok =>
              /\ ~raised
              /\ fromJsonCalls = <<[model |-> Model(query),
                                    json |-> args["resp"].json]>>
              /\ ret = [t |-> "model", model |-> Model(query),
                        json |-> args["resp"].json]
        /\ ~args["resp"].ok =>
              /\ raised
              /\ fromJsonCalls = <<>>
              /\ ret = NoRet

\* SegmentQuery.by_id(0) fetched and built a Segment
C4_Witness ==
    /\ op = "by_id"
    /\ query = "SegmentQuery"
    /\ args["entity_id"] = IntVal(0)
    /\ args["resp"].ok
    /\ Len(fetchCalls) = 1
    /\ Len(fromJsonCalls) = 1

---------------------------------------------------------------------------
(* C5 *)

\* C5 as claimed: every key of P that is no semantic key of the rename
\* table and whose value is not None is in the result of _search_params
\* with the same value.
C5_UnknownKeysPassThrough ==
    Normalized =>
      LET P == InDict
          R == OutDict
      IN
        \A u \in DOMAIN P :
           (u \notin SemanticKeys /\ P[u] # None)
           => u \in DOMAIN R /\ R[u] = P[u]

\* C5 amended: the same for the keys that are not the wire key of a
\* semantic key present in P.
C5_UnknownKeysPassThroughUnlessRenamedOnto ==
    Normalized =>
      LET P == InDict
          R == OutDict
      IN
        \A u \in DOMAIN P :
           (/\ u \notin SemanticKeys
            /\ P[u] # None
            /\ ~ \E e \in Renames : e[2] = u /\ e[1] \in DOMAIN P)
           => u \in DOMAIN R /\ R[u] = P[u]

\* a find was given the unknown key foo and a value to rename, and foo
\* reached the search
C5_Witness ==
    /\ op = "find"
    /\ query = "VenueQuery"
    /\ "foo" \in DOMAIN args
    /\ args["foo"] # None
    /\ "stateCode" \notin DOMAIN searchCalls[1].params
    /\ searchCalls[1].params["foo"] = args["foo"]

---------------------------------------------------------------------------
(* C6 *)

\* no key of m would be renamed and no value of m is None
AlreadyNormalized(m) ==
    \A k \in DOMAIN m : m[k] # None /\ ~ \E e \in Renames : e[1] = k

\* C6: _search_params returns an already normalized dict unchanged; so the
\* result of _search_params, when it is such a dict, is returned as it is
\* by a second _search_params.
C6_Idempotent ==
    Normalized =>
      LET P == InDict
          R == OutDict
      IN  AlreadyNormalized(P) => R = P

\* the result of a run that renamed state_code was normalized again
C6_Witness ==
    /\ op = "_search_params"
    /\ "stateCode" \in DOMAIN args
    /\ AlreadyNormalized(args)
    /\ ret.d = args

---------------------------------------------------------------------------
(* C7 *)

\* a value that is falsy but not None
FalsyNotNone(v) == v # None /\ Falsy(v)

\* C7 as claimed: every key of P whose value is falsy but not None is in
\* the result under its wire name with that value.
C7_FalsyKept ==
    Normalized =>
      LET P == InDict
          R == OutDict
      IN
        \A k \in DOMAIN P :
           FalsyNotNone(P[k])
           => /\ WireName(k) \in DOMAIN R
              /\ R[WireName(k)] = P[k]

\* C7 amended: the same for the keys that share their wire name with no
\* other key of P.
C7_FalsyKeptUnlessCollision ==
    Normalized =>
      LET P == InDict
          R == OutDict
      IN
        \A k \in DOMAIN P :
           (FalsyNotNone(P[k]) /\ ~Collides(P, k))
           => /\ WireName(k) \in DOMAIN R
              /\ R[WireName(k)] = P[k]

\* find(page=0) searched with page = 0
C7_Witness ==
    /\ op = "find"
    /\ "page" \in DOMAIN args
    /\ args["page"] = IntVal(0)
    /\ "page" \in DOMAIN searchCalls[1].params
    /\ searchCalls[1].params["page"] = IntVal(0)

---------------------------------------------------------------------------
(* C8 *)

\* the text Python prints for the values a caller passes, written out
Printed(v) ==
    CASE v = IntVal(0) -> <<"0">>
      [] v = IntVal(1) -> <<"1">>
      [] v = IntVal(2) -> <<"2">>
      [] v = IntVal(3) -> <<"3">>
      [] v = IntVal(5) -> <<"5">>
      [] v = IntVal(-12) -> <<"-", "1", "2">>
      [] v = FloatVal(337) -> <<"3", "3", ".", "7">>
      [] v = FloatVal(-844) -> <<"-", "8", "4", ".", "4">>
      [] v.t = "str" -> v.s

\* C8: by_location(latitude, longitude, radius) calls EventQuery.find
\* exactly once, with latlong the text of latitude, a comma and the text
\* of longitude, with radius as text, with the given unit, sort and extra
\* keyword arguments as they came, and with no other parameter.
C8_ByLocationShapesArguments ==
    op = "by_location" =>
        /\ Len(findCalls) = 1
        /\ findCalls[1].query = "EventQuery"
        /\ LET f == findCalls[1].given
               extra == DOMAIN args \ {"latitude", "longitude"}
           IN  /\ DOMAIN f = {"latlong", "radius", "unit", "sort"} \cup extra
               /\ f["latlong"] = StrVal(Printed(args["latitude"]) \o <<",">>
                                           \o Printed(args["longitude"]))
               /\ f["radius"].t = "str"
               /\ "radius" \in DOMAIN args =>
                     f["radius"] = StrVal(Printed(args["radius"]))
               /\ \A k \in extra \ {"radius"} : f[k] = args[k]

\* by_location(33.7, -84.4, radius=5) called find with "33.7,-84.4" and "5"
C8_Witness ==
    /\ op = "by_location"
    /\ args["latitude"] = FloatVal(337)
    /\ args["longitude"] = FloatVal(-844)
    /\ "radius" \in DOMAIN args
    /\ args["radius"] = IntVal(5)
    /\ findCalls[1].given["latlong"] =
          StrVal(<<"3", "3", ".", "7", ",", "-", "8", "4", ".", "4">>)
    /\ findCalls[1].given["radius"] = StrVal(<<"5">>)

---------------------------------------------------------------------------
(* C9 *)

\* the named parameters of q's find
FindParams(q) == CASE q = "AttractionQuery" -> AttractionFindParams
                   [] q = "ClassificationQuery" -> ClassificationFindParams
                   [] q = "EventQuery" -> EventFindParams
                   [] q = "VenueQuery" -> VenueFindParams

\* what _get received for the parameter p of q's find: the id parameter
\* arrives as entity_id, the other common parameters under their names,
\* the rest through kwargs
Forwarded(q, a, p) ==
    CASE p = IdParam(q) -> a.entity_id
      [] p = "keyword" -> a.keyword
      [] p = "sort" -> a.sort
      [] p = "include_test" -> a.include_test
      [] p = "page" -> a.page
      [] p = "size" -> a.size
      [] p = "locale" -> a.locale
      [] OTHER -> Lookup(a.kwargs, p)

---------------------------------------------------------------------------
(* C10 *)

\* the position in attr_map of the last rename onto w that applies to d
LastRenameOnto(d, w) ==
    CHOOSE i \in DOMAIN attr_map :
       /\ attr_map[i][2] = w /\ attr_map[i][1] # w
       /\ attr_map[i][1] \in DOMAIN d
       /\ \A j \in DOMAIN attr_map :
             (attr_map[j][2] = w /\ attr_map[j][1] # w
                 /\ attr_map[j][1] \in DOMAIN d) => j <= i

\* two keys of d end at w: two renames onto w apply, or one applies and w
\* is a key of d
CollisionAt(d, w) ==
    \/ w \in DOMAIN d /\ \E e \in Renames : e[2] = w /\ e[1] \in DOMAIN d
    \/ \E e \in Renames :
          /\ e[2] = w /\ e[1] \in DOMAIN d
          /\ \E f \in Renames : f # e /\ f[2] = w /\ f[1] \in DOMAIN d

====
